---- MODULE Spec2Model ----
(***************************************************************************)
(* Model of include/hirzel/file.h: the whole-file helpers (read, write,    *)
(* append), the line splitter hxfile_read_lines / hxfile_free_lines and    *)
(* the stream line reader hxfile_read_line.                                *)
(*                                                                         *)
(* Bytes are the unsigned values 0..255.  C strings are byte sequences     *)
(* that end at their first zero byte.  C indices are 0-based, sequences    *)
(* here are 1-based: C's buf[i] is buf[i + 1].                             *)
(* Streams are POSIX streams: text and binary mode do not differ.          *)
(***************************************************************************)
EXTENDS Integers, Sequences, FiniteSets

VARIABLES
    charSigned,   \* the build's plain char is signed (implementation-defined)
    stream,       \* bytes of the FILE* handed to hxfile_read_line
    spos,         \* read position of that stream
    last,         \* outcome of the most recent library call
    disk,         \* content of the file at the path, or NoFile
    writable,     \* the path can be opened for writing
    lastWrite,    \* argument of the last hxfile_write_raw that returned true
    lines,        \* the array returned by hxfile_read_lines and not yet freed
    heap,         \* identifiers of the live allocations of hxfile_read_lines
    nextId,       \* identifier of the next allocation
    badFree       \* free() was given a pointer that starts no allocation

vars == <<charSigned, stream, spos, last, disk, writable, lastWrite, lines,
          heap, nextId, badFree>>

-----------------------------------------------------------------------------
(* Bounds of the explored inputs *)

MaxLen == 3        \* longest arbitrary byte string in a stream or write
MaxFileLen == 4    \* longest file content
MaxChunks == 2     \* longest run of filler bytes, in full chunks
MaxAllocs == 4     \* allocations made before the exploration stops

StreamBytes == {0, 10, 97, 255}
FileBytes == {0, 10, 97}

-----------------------------------------------------------------------------
(* Program constants and C library values *)

BUFSIZE == 128
FLAG == 126
NL == 10
NUL == 0
EOF == -1
NULL == -1
Indeterminate == -2
Trap == -3
NoFile == [exists |-> FALSE, data |-> <<>>]
File(bytes) == [exists |-> TRUE, data |-> bytes]

Min(S) == CHOOSE x \in S : \A y \in S : x <= y

Range(s) == {s[i] : i \in 1..Len(s)}

SeqsUpTo(A, n) == UNION {[1..k -> A] : k \in 0..n}

(* a C string: the bytes before the first zero byte of a buffer *)
CStr(s) ==
    IF NUL \in Range(s)
    THEN SubSeq(s, 1, Min({i \in 1..Len(s) : s[i] = NUL}) - 1)
    ELSE s

-----------------------------------------------------------------------------
(* hxfile_read_line *)

(* int -> char conversion of the value getc returned *)
ToChar(v) ==
    IF charSigned
    THEN IF v >= 128 THEN v - 256 ELSE v
    ELSE v % 256

(* char -> unsigned char conversion done by ungetc *)
ToUChar(c) == c % 256

(* getc on a stream at position p: the value and the new position *)
Getc(data, p) ==
    IF p < Len(data)
    THEN [val |-> data[p + 1], pos |-> p + 1]
    ELSE [val |-> EOF, pos |-> p]

(* Fgets without the stop at a newline: it always fills the chunk *)
Fgets_NoStopAtNewline(buf, unget, data, p) ==
    LET avail == unget \o SubSeq(data, p + 1, Len(data))
        n     == IF Len(avail) < BUFSIZE - 1 THEN Len(avail) ELSE BUFSIZE - 1
    IN  IF n = 0
        THEN [buf |-> buf, pos |-> p]
        ELSE [buf |-> [i \in 1..BUFSIZE |->
                          IF i <= n THEN avail[i]
                          ELSE IF i = n + 1 THEN NUL
                          ELSE buf[i]],
              pos |-> p + n - Len(unget)]

(* fgets(buf, BUFSIZE, stream): reads at most BUFSIZE - 1 bytes, stops after
   a newline or at end-of-stream; nothing read leaves buf unchanged *)
Fgets(buf, unget, data, p) ==
    LET avail == unget \o SubSeq(data, p + 1, Len(data))
        lim   == IF Len(avail) < BUFSIZE - 1 THEN Len(avail) ELSE BUFSIZE - 1
        nls   == {i \in 1..lim : avail[i] = NL}
        n     == IF nls = {} THEN lim ELSE Min(nls)
    IN  IF n = 0
        THEN [buf |-> buf, pos |-> p]
        ELSE [buf |-> [i \in 1..BUFSIZE |->
                          IF i <= n THEN avail[i]
                          ELSE IF i = n + 1 THEN NUL
                          ELSE buf[i]],
              pos |-> p + n - Len(unget)]

(* the do-while loop: one chunk per iteration, appended to line *)
RECURSIVE ReadLoop(_, _, _, _, _)
ReadLoop(buf, unget, data, p, line) ==
    LET b0  == [buf EXCEPT ![FLAG + 1] = NUL]
        r   == Fgets(b0, unget, data, p)
        acc == line \o CStr(r.buf)
    IN  IF r.buf[FLAG + 1] # NUL /\ r.buf[FLAG + 1] # NL
        THEN ReadLoop(r.buf, <<>>, data, r.pos, acc)
        ELSE [null |-> FALSE, line |-> acc, pos |-> r.pos]

hxfile_read_line(data, p) ==
    LET g == Getc(data, p)
        c == ToChar(g.val)
    IN  IF c = EOF
        THEN [null |-> TRUE, line |-> <<>>, pos |-> g.pos]
        ELSE ReadLoop([i \in 1..BUFSIZE |-> Indeterminate],
                      <<ToUChar(c)>>, data, g.pos, <<>>)

-----------------------------------------------------------------------------
(* read: the whole-file read behind hxfile_read and hxfile_read_raw *)

(* outcomes of undefined behaviour: the process dies, or the call goes on
   and hands back the null pointer *)
UBOutcomes == {"crash", "null"}

(* file: the file at the path; mallocOk: malloc(size + 1) succeeded.
   A failed malloc is followed by fread into, and a store through, the null
   pointer: undefined behaviour, whose outcome is the parameter ub. *)
read(file, mallocOk, ub) ==
    IF ~file.exists
    THEN [status |-> "null", buf |-> <<>>, nullAccess |-> FALSE]
    ELSE IF ~mallocOk
    THEN [status |-> ub, buf |-> <<>>, nullAccess |-> TRUE]
    ELSE [status |-> "ok", buf |-> file.data \o <<NUL>>, nullAccess |-> FALSE]

(* write: fputs writes the bytes of text before its first zero byte;
   mode "w"/"wb" truncates, "a"/"ab" appends *)
write(file, canOpen, text, append) ==
    IF ~canOpen
    THEN [ret |-> FALSE, file |-> file]
    ELSE [ret |-> TRUE,
          file |-> File((IF append THEN file.data ELSE <<>>) \o CStr(text))]

-----------------------------------------------------------------------------
(* hxfile_read_lines *)

(* the counting loop over the buffer, with the indices it reads: one newline
   counted per '\n' until the terminating zero *)
RECURSIVE ScanLoop(_, _, _, _)
ScanLoop(text, pos, linec, reads) ==
    IF text[pos + 1] # NUL
    THEN ScanLoop(text, pos + 1,
                  IF text[pos + 1] = NL THEN linec + 1 ELSE linec,
                  reads \cup {pos})
    ELSE [pos |-> pos, linec |-> linec, reads |-> reads \cup {pos}]

(* the trailing-line check: pos[-1] != '\n' && pos > text.  The left operand
   is read first; before the buffer the read is undefined: it yields the
   indeterminate byte junk, or traps when junk is Trap *)
TrailingCheck(text, sc, junk) ==
    LET c == IF sc.pos - 1 >= 0 THEN text[sc.pos] ELSE junk
    IN  [linec |-> IF c # NL /\ sc.pos > 0 THEN sc.linec + 1 ELSE sc.linec,
         reads |-> sc.reads \cup {sc.pos - 1},
         trap  |-> sc.pos - 1 < 0 /\ junk = Trap]

(* strtok(s, "\n") continuing at index from: skips leading delimiters, ends
   the token by overwriting the delimiter that follows it *)
Strtok(text, from) ==
    LET s == Min({i \in from..(Len(text) - 1) : text[i + 1] # NL})
    IN  IF text[s + 1] = NUL
        THEN [tok |-> NULL, text |-> text, save |-> s]
        ELSE LET e == Min({i \in s..(Len(text) - 1) : text[i + 1] \in {NL, NUL}})
             IN  IF text[e + 1] = NUL
                 THEN [tok |-> s, text |-> text, save |-> e]
                 ELSE [tok |-> s, text |-> [text EXCEPT ![e + 1] = NUL],
                       save |-> e + 1]

(* for (i = 1; i < linec; ++i) out[i] = strtok(NULL, "\n"); *)
RECURSIVE FillLoop(_, _, _, _, _)
FillLoop(text, save, out, i, linec) ==
    IF i < linec
    THEN LET t == Strtok(text, save)
         IN  FillLoop(t.text, t.save, [out EXCEPT ![i + 1] = t.tok], i + 1, linec)
    ELSE [text |-> text, out |-> out]

NoLines ==
    [status |-> "null", out |-> <<>>, text |-> <<>>, linec |-> 0,
     reads |-> {}, writes |-> {}, nullAccess |-> FALSE,
     textAlloc |-> FALSE, outAlloc |-> FALSE]

(* m1, ub1: the malloc of the whole-file read; m2, ub2: the malloc of the
   output array, whose failure is followed by a store through null *)
hxfile_read_lines(file, m1, ub1, m2, ub2, junk) ==
    LET r == read(file, m1, ub1)
    IN  IF r.status # "ok"
        THEN [NoLines EXCEPT !.status = r.status, !.nullAccess = r.nullAccess]
        ELSE
        LET sc == ScanLoop(r.buf, 0, 0, {})
            tc == TrailingCheck(r.buf, sc, junk)
            linec == tc.linec
        IN  IF tc.trap
            THEN [NoLines EXCEPT !.status = "crash", !.reads = tc.reads,
                                 !.textAlloc = TRUE]
            ELSE IF ~m2
            THEN [NoLines EXCEPT !.status = ub2, !.nullAccess = TRUE,
                                 !.linec = linec, !.reads = tc.reads,
                                 !.textAlloc = TRUE]
            ELSE
            LET t0   == Strtok(r.buf, 0)
                out0 == [[i \in 1..(linec + 1) |-> Indeterminate] EXCEPT ![1] = t0.tok]
                f    == FillLoop(t0.text, t0.save, out0, 1, linec)
            IN  [status |-> "ok",
                 out |-> [f.out EXCEPT ![linec + 1] = NULL],
                 text |-> f.text, linec |-> linec,
                 reads |-> tc.reads,
                 writes |-> {0} \cup 1..(linec - 1) \cup {linec},
                 nullAccess |-> FALSE,
                 textAlloc |-> TRUE, outAlloc |-> TRUE]

(* hxfile_free_lines: free(lines[0]); free(lines);  held: the live
   allocations, textId and outId the two made by hxfile_read_lines *)
hxfile_free_lines(out, textId, outId, held) ==
    LET first == out[1]
    IN  [heap |-> (IF first = 0 THEN held \ {textId} ELSE held) \ {outId},
         badFree |-> first # NULL /\ first # 0]

-----------------------------------------------------------------------------
(* Inputs *)

(* n bytes that are neither zero, newline nor 255, and differ along a chunk *)
Fill(n) == [i \in 1..n |-> 65 + (i % 26)]

FillLens == {0} \cup {k * (BUFSIZE - 1) + d : k \in 1..MaxChunks, d \in {-1, 0}}

StreamInputs == {Fill(n) \o t : n \in FillLens, t \in SeqsUpTo(StreamBytes, MaxLen)}

FileInputs == SeqsUpTo(FileBytes, MaxFileLen)

WriteInputs == SeqsUpTo(FileBytes, MaxLen)

NoArray == [some |-> FALSE, out |-> <<>>, textId |-> 0, outId |-> 0]

Alive == last.status # "crash"

-----------------------------------------------------------------------------
(* The stream reader: a caller draining one stream *)

InitStream ==
    /\ charSigned \in BOOLEAN
    /\ stream \in StreamInputs
    /\ spos = 0
    /\ last = [op |-> "none", status |-> "ok"]
    /\ disk = NoFile
    /\ writable = FALSE
    /\ lastWrite = [some |-> FALSE, data |-> <<>>]
    /\ lines = NoArray
    /\ heap = {}
    /\ nextId = 1
    /\ badFree = FALSE

ReadLine ==
    LET r == hxfile_read_line(stream, spos)
    IN  /\ last' = [op |-> "read_line",
                    status |-> IF r.null THEN "null" ELSE "ok",
                    line |-> r.line, start |-> spos, pos |-> r.pos]
        /\ spos' = r.pos
        /\ UNCHANGED <<charSigned, stream, disk, writable, lastWrite, lines,
                       heap, nextId, badFree>>

NextStream == ReadLine

SpecStream == InitStream /\ [][NextStream]_vars

-----------------------------------------------------------------------------
(* The file helpers: a caller working on one path *)

InitFile ==
    /\ charSigned = TRUE
    /\ stream = <<>>
    /\ spos = 0
    /\ last = [op |-> "none", status |-> "ok"]
    /\ disk \in {NoFile} \cup {File(b) : b \in FileInputs}
    /\ writable \in BOOLEAN
    /\ lastWrite = [some |-> FALSE, data |-> <<>>]
    /\ lines = NoArray
    /\ heap = {}
    /\ nextId = 1
    /\ badFree = FALSE

(* hxfile_write (raw = FALSE) and hxfile_write_raw (raw = TRUE) *)
WriteFile ==
    /\ Alive
    /\ \E text \in WriteInputs, raw \in BOOLEAN :
        LET w == write(disk, writable, text, FALSE)
        IN  /\ disk' = w.file
            /\ lastWrite' = IF w.ret THEN [some |-> raw, data |-> text]
                            ELSE lastWrite
            /\ last' = [op |-> "write", status |-> IF w.ret THEN "true" ELSE "false"]
    /\ UNCHANGED <<charSigned, stream, spos, writable, lines, heap, nextId, badFree>>

(* hxfile_append and hxfile_append_raw *)
AppendFile ==
    /\ Alive
    /\ \E text \in WriteInputs :
        LET w == write(disk, writable, text, TRUE)
        IN  /\ Len(w.file.data) <= MaxFileLen
            /\ disk' = w.file
            /\ lastWrite' = IF w.ret THEN [some |-> FALSE, data |-> <<>>]
                            ELSE lastWrite
            /\ last' = [op |-> "append", status |-> IF w.ret THEN "true" ELSE "false"]
    /\ UNCHANGED <<charSigned, stream, spos, writable, lines, heap, nextId, badFree>>

(* hxfile_read (raw = FALSE) and hxfile_read_raw (raw = TRUE) *)
ReadFile ==
    /\ Alive
    /\ \E raw, mallocOk \in BOOLEAN, ub \in UBOutcomes :
        LET r == read(disk, mallocOk, ub)
        IN  last' = [op |-> "read", status |-> r.status, raw |-> raw,
                     opened |-> disk.exists, mallocOk |-> mallocOk,
                     buf |-> r.buf, nullAccess |-> r.nullAccess]
    /\ UNCHANGED <<charSigned, stream, spos, disk, writable, lastWrite, lines,
                   heap, nextId, badFree>>

ReadLines ==
    /\ Alive
    /\ ~lines.some
    /\ nextId + 1 <= MaxAllocs
    /\ \E m1, m2 \in BOOLEAN, ub1, ub2 \in UBOutcomes,
          junk \in FileBytes \cup {Trap} :
        LET r == hxfile_read_lines(disk, m1, ub1, m2, ub2, junk)
        IN  /\ last' = [op |-> "read_lines", status |-> r.status,
                        src |-> disk.data, res |-> r]
            /\ lines' = IF r.status = "ok"
                        THEN [some |-> TRUE, out |-> r.out,
                              textId |-> nextId, outId |-> nextId + 1]
                        ELSE lines
            /\ heap' = heap \cup (IF r.textAlloc THEN {nextId} ELSE {})
                            \cup (IF r.outAlloc THEN {nextId + 1} ELSE {})
            /\ nextId' = nextId + 2
    /\ UNCHANGED <<charSigned, stream, spos, disk, writable, lastWrite, badFree>>

(* hxfile_free_lines on the array hxfile_read_lines returned; a pointer that
   starts no allocation makes free undefined: the process dies or goes on *)
FreeLines ==
    /\ Alive
    /\ lines.some
    /\ LET f == hxfile_free_lines(lines.out, lines.textId, lines.outId, heap)
       IN  /\ heap' = f.heap
           /\ badFree' = (badFree \/ f.badFree)
           /\ \E st \in (IF f.badFree THEN {"crash", "ok"} ELSE {"ok"}) :
                last' = [op |-> "free_lines", status |-> st,
                         first |-> lines.out[1], bad |-> f.badFree,
                         leaked |-> f.heap \cap {lines.textId, lines.outId}]
    /\ lines' = NoArray
    /\ UNCHANGED <<charSigned, stream, spos, disk, writable, lastWrite, nextId>>

NextFile == WriteFile \/ AppendFile \/ ReadFile \/ ReadLines \/ FreeLines

SpecFile == InitFile /\ [][NextFile]_vars

-----------------------------------------------------------------------------
(* What the claims compare the code against *)

(* the segments of B delimited by '\n', the one after the last '\n' included *)
RECURSIVE Segments(_)
Segments(B) ==
    IF NL \notin Range(B)
    THEN <<B>>
    ELSE LET i == Min({j \in 1..Len(B) : B[j] = NL})
         IN  <<SubSeq(B, 1, i - 1)>> \o Segments(SubSeq(B, i + 1, Len(B)))

(* the lines of B: its segments, without the empty one after a final '\n' *)
ExpectedSplit(B) ==
    LET s == Segments(B)
    IN  IF s[Len(s)] = <<>> THEN SubSeq(s, 1, Len(s) - 1) ELSE s

RECURSIVE Join(_)
Join(ls) ==
    IF ls = <<>> THEN <<>>
    ELSE IF Len(ls) = 1 THEN ls[1]
    ELSE ls[1] \o <<NL>> \o Join(Tail(ls))

(* the strings a caller finds in the returned array before its first NULL *)
LinesOf(res) ==
    LET firstNull == Min({i \in 1..Len(res.out) : res.out[i] = NULL})
    IN  [i \in 1..(firstNull - 1) |->
            CStr(SubSeq(res.text, res.out[i] + 1, Len(res.text)))]

(* where the line that starts at position p of data ends: just past the
   first '\n' at or after p, or at end-of-stream *)
ExpectedEnd(data, p) ==
    LET nls == {i \in (p + 1)..Len(data) : data[i] = NL}
    IN  IF nls = {} THEN Len(data) ELSE Min(nls)

ExpectedLine(data, p) == SubSeq(data, p + 1, ExpectedEnd(data, p))

IsText(B) == Range(B) \cap {0, 255} = {}

SplitDone == last.op = "read_lines" /\ last.status = "ok"

LineRead == last.op = "read_line"

-----------------------------------------------------------------------------
(* Claims *)

(* C1: for every text buffer hxfile_read_lines returns, in order, exactly the
   segments delimited by '\n', an empty segment between two newlines kept as
   an empty line, no extra line after a final newline, and the NULL
   terminator of the array only after the last segment. *)
C1_SegmentsKept ==
    (SplitDone /\ IsText(last.src)) =>
        /\ LinesOf(last.res) = ExpectedSplit(last.src)
        /\ \A i \in 1..Len(ExpectedSplit(last.src)) : last.res.out[i] # NULL

(* C2: for a non-empty text buffer B without a trailing newline, the last
   returned line is the final unterminated segment of B and joining the
   returned lines with '\n' gives B. *)
C2_JoinReproduces ==
    (SplitDone /\ IsText(last.src) /\ last.src # <<>>
        /\ last.src[Len(last.src)] # NL) =>
        LET ls == LinesOf(last.res)
            sg == Segments(last.src)
        IN  /\ ls # <<>>
            /\ ls[Len(ls)] = sg[Len(sg)]
            /\ Join(ls) = last.src

(* C3: on a stream that is not at end-of-stream hxfile_read_line returns
   exactly the bytes from the current position up to and including the first
   '\n', or up to end-of-stream, whatever the length of the line.  Stated for
   streams of text (no zero byte, no byte 255). *)
C3_WholeLine ==
    (LineRead /\ IsText(stream) /\ last.start < Len(stream)) =>
        /\ last.status = "ok"
        /\ last.line = ExpectedLine(stream, last.start)

(* C4: hxfile_read_line returns NULL if and only if the stream is at
   end-of-stream when the call starts, whatever the value of the next byte. *)
C4_AbsentIffExhausted ==
    LineRead => (last.status = "null" <=> last.start >= Len(stream))

(* C5: binary round trip: after hxfile_write_raw(p, C) succeeded,
   hxfile_read_raw(p) returns content equal to C, for any bytes C. *)
C5_RoundTrip ==
    (last.op = "read" /\ last.raw /\ last.status = "ok" /\ lastWrite.some) =>
        SubSeq(last.buf, 1, Len(last.buf) - 1) = lastWrite.data

(* C6: the whole-file read returns NULL both when the file cannot be opened
   and when the buffer cannot be allocated, with no access through the
   failed allocation. *)
C6_FailuresAbsent ==
    (last.op = "read" /\ (~last.opened \/ ~last.mallocOk)) =>
        /\ last.status = "null"
        /\ ~last.nullAccess

(* C7: each hxfile_read_line call either signals end-of-stream, leaving the
   position unchanged, or consumes exactly one line, leaving the position
   just past the first '\n' after its start (or at end-of-stream). *)
C7_OneLinePerCall ==
    LineRead =>
        /\ last.status = "null" => last.pos = last.start
        /\ last.status = "ok" =>
              /\ last.start < Len(stream)
              /\ last.pos = ExpectedEnd(stream, last.start)

(* C8 as claimed: no line returned by hxfile_read_line contains a newline
   character. *)
C8_NoNewline ==
    (LineRead /\ last.status = "ok") => NL \notin Range(last.line)

(* C8 amended: a line returned by hxfile_read_line has no newline before its
   last character, and the '\n' that ended the line in the stream is kept as
   the last character of the line (when the bytes consumed hold no zero). *)
C8_NewlineOnlyLast ==
    (LineRead /\ last.status = "ok") =>
        /\ \A i \in 1..(Len(last.line) - 1) : last.line[i] # NL
        /\ LET used == SubSeq(stream, last.start + 1, last.pos)
           IN  (used # <<>> /\ NUL \notin Range(used) /\ used[Len(used)] = NL) =>
                  (last.line # <<>> /\ last.line[Len(last.line)] = NL)

(* a line longer than one chunk was returned with its newline at the end *)
C8_Witness ==
    /\ LineRead
    /\ last.status = "ok"
    /\ Len(last.line) >= BUFSIZE
    /\ last.line[Len(last.line)] = NL

(* C9: the first element of the array hxfile_read_lines returns is the start
   of the buffer of the whole-file read, so that hxfile_free_lines releases
   that buffer and the array: nothing is leaked and free gets no pointer
   other than the start of an allocation. *)
C9_FirstIsBuffer ==
    /\ lines.some => lines.out[1] = 0
    /\ last.op = "free_lines" => (~last.bad /\ last.leaked = {})

(* C10: during hxfile_read_lines every read of the text buffer is at an
   index in 0..len and every write to the output array at an index in
   0..linec, for every file content including the empty file. *)
C10_AccessesInBounds ==
    SplitDone =>
        /\ last.res.reads \subseteq 0..Len(CStr(last.src))
        /\ last.res.writes \subseteq 0..last.res.linec

====
